---- MODULE Spec2Model ----
(***************************************************************************)
(* Model of the firewall rule generator: main.py's loop over the testcase  *)
(* files, FirewallRuleGenerator's constructor (generate_network_graph,     *)
(* init_rules), create_filter_rules / generate_filter_rule /               *)
(* generate_rule_string, and write_filter_rules.                           *)
(*                                                                         *)
(* Strings that the program formats are modelled as the sequence of their  *)
(* space-separated tokens, each token a string built with \o the way       *)
(* str.format builds it. A text file is the sequence of its lines.         *)
(***************************************************************************)
EXTENDS Integers, Sequences, FiniteSets, TLC

\* ------------------------------------------------------------------ bounds
NumRouters == 2
NumSubnets == 3
MaxComms == 2
MaxSourceId == 1
NumTestcases == 2
MinRerunLinks == 4

VARIABLES
  inputs,            \* testcase id -> the parsed <id>.json (network, communications)
  tie,               \* which of several equally short paths the path search returns
  todo,              \* testcase ids main's loop has still to visit
  testcase_id,       \* main's current testcase (0 before the first)
  graph,             \* FirewallRuleGenerator.__graph
  filter_rules,      \* FirewallRuleGenerator.filter_rules
  idx,               \* position of create_filter_rules' loop in the communications
  resolved_path,     \* generate_filter_rule's local path: the last path resolved
  communication_filter_rules, \* create_filter_rules' local: the last generate_filter_rule result
  widx,              \* position of write_filter_rules' loop in filter_rules.items()
  files,             \* <<testcase id, router id>> -> the artifact at that path
  pc,                \* where main is
  err                \* the exception that ended the program, "none" while it runs

vars == <<inputs, tie, todo, testcase_id, graph, filter_rules, idx, resolved_path,
          communication_filter_rules, widx, files, pc, err>>

\* ------------------------------------------------------------------ text
Digit == <<"0", "1", "2", "3", "4", "5", "6", "7", "8", "9">>

\* "{0}".format(n) of a non-negative integer
RECURSIVE FormatInt(_)
FormatInt(n) ==
  IF n < 10 THEN Digit[n + 1] ELSE FormatInt(n \div 10) \o Digit[(n % 10) + 1]

\* ------------------------------------------------------------------ node names
sId2sName(subnet_id) == <<"s", subnet_id>>

rId2rName(router_id) == <<"r", router_id>>

\* re.match(r"r\d+", name)
IsRouterName(name) == name[1] = "r"

\* ------------------------------------------------------------------ inputs
Protocols == {"tcp", "udp", "icmp"}

Directions == {"unidirectional", "bidirectional"}

SubnetRecord(i) ==
  [id |-> i, address |-> "10.0." \o FormatInt(i) \o ".0", prefix |-> 24]

LinkRecord(r, s) ==
  [routerId |-> r, subnetId |-> s,
   interfaceId |-> "eth" \o FormatInt(s),
   ip |-> "10.0." \o FormatInt(s) \o "." \o FormatInt(r)]

\* every router-subnet pair over the ids in use; a network declares the routers
\* 1..nr and the subnets 1..ns, so a link may name an undeclared router or subnet
LinkPool == {LinkRecord(r, s) : r \in 1..NumRouters, s \in 1..NumSubnets}

RECURSIVE SetToSeq(_)
SetToSeq(S) ==
  IF S = {} THEN <<>>
  ELSE LET x == CHOOSE y \in S :
                  \A z \in S : (y.routerId * 100 + y.subnetId) <= (z.routerId * 100 + z.subnetId)
       IN <<x>> \o SetToSeq(S \ {x})

Networks ==
  {[routers |-> [i \in 1..nr |-> [id |-> i]],
    subnets |-> [i \in 1..ns |-> SubnetRecord(i)],
    links |-> SetToSeq(L)] :
      nr \in (NumRouters - 1)..NumRouters,
      ns \in (NumSubnets - 1)..NumSubnets,
      L \in SUBSET LinkPool}

CommPool ==
  [sourceSubnetId : 1..MaxSourceId,
   targetSubnetId : 1..NumSubnets,
   protocol : Protocols,
   sourcePortStart : {1024}, sourcePortEnd : {65535},
   targetPortStart : {80}, targetPortEnd : {80},
   direction : Directions]

CommLists == UNION {[1..n -> CommPool] : n \in 0..MaxComms}

\* a testcase file: the communications name declared subnets
Inputs ==
  {x \in [network : Networks, communications : CommLists] :
     \A i \in 1..Len(x.communications) :
       /\ x.communications[i].sourceSubnetId <= Len(x.network.subnets)
       /\ x.communications[i].targetSubnetId <= Len(x.network.subnets)}

\* ------------------------------------------------------------------ graph
EmptyGraph == [nodes |-> {}, attrs |-> <<>>, edges |-> {}, binding |-> <<>>]

\* a function with one more (or one overwritten) key
Put(f, k, v) == [x \in DOMAIN f \cup {k} |-> IF x = k THEN v ELSE f[x]]

\* graph.add_node(name, **attr): a new node, or new attributes on an old one
AddNode(g, name, attr) ==
  [g EXCEPT !.nodes = @ \cup {name}, !.attrs = Put(@, name, attr)]

\* graph.add_edge(u, v, ...): nodes that do not exist yet are created bare
AddEdge(g, u, v, attr) ==
  [g EXCEPT !.nodes = @ \cup {u, v},
            !.attrs = [x \in DOMAIN @ \cup {u, v} |-> IF x \in DOMAIN @ THEN @[x] ELSE <<>>],
            !.edges = @ \cup {{u, v}}]

RECURSIVE AddRouters(_, _, _)
AddRouters(g, routers, i) ==
  IF i > Len(routers) THEN g
  ELSE AddRouters(AddNode(g, rId2rName(routers[i].id), [id |-> routers[i].id]), routers, i + 1)

RECURSIVE AddSubnets(_, _, _)
AddSubnets(g, subnets, i) ==
  IF i > Len(subnets) THEN g
  ELSE AddSubnets(
         AddNode(g, sId2sName(subnets[i].id),
                 [id |-> subnets[i].id, address |-> subnets[i].address,
                  prefix |-> subnets[i].prefix]),
         subnets, i + 1)

\* one iteration of the loop over the links: the edge, then the interface record
\* stored in the router node under the subnet's name
AddLink(g, link) ==
  LET router_name == rId2rName(link.routerId)
      subnet_name == sId2sName(link.subnetId)
      g1 == AddEdge(g, router_name, subnet_name,
                    [routerInterfaceId |-> link.interfaceId, routerInterfaceIp |-> link.ip])
  IN [g1 EXCEPT !.binding =
        Put(@, <<router_name, subnet_name>>,
            [interfaceId |-> link.interfaceId, interfaceIp |-> link.ip])]

RECURSIVE AddLinks(_, _, _)
AddLinks(g, links, i) ==
  IF i > Len(links) THEN g ELSE AddLinks(AddLink(g, links[i]), links, i + 1)

generate_network_graph(network_desc) ==
  AddLinks(AddSubnets(AddRouters(EmptyGraph, network_desc.routers, 1),
                      network_desc.subnets, 1),
           network_desc.links, 1)

\* ------------------------------------------------------------------ path search
Neighbors(g, n) == {m \in g.nodes : {n, m} \in g.edges}

Last(p) == p[Len(p)]

\* breadth-first layers of simple paths from the source; the first layer that
\* reaches the target holds exactly the shortest paths
RECURSIVE Search(_, _, _, _)
Search(g, paths, seen, target) ==
  IF paths = {} THEN {}
  ELSE LET hits == {p \in paths : Last(p) = target}
       IN IF hits # {} THEN hits
          ELSE LET next == UNION {{Append(p, n) : n \in Neighbors(g, Last(p)) \ seen} : p \in paths}
               IN Search(g, next, seen \cup {Last(p) : p \in next}, target)

\* ShortestPaths finding no path from a node to itself
ShortestPathsNoSelf(g, source, target) ==
  IF source \notin g.nodes \/ target \notin g.nodes \/ source = target THEN {}
  ELSE Search(g, {<<source>>}, {source}, target)

ShortestPaths(g, source, target) ==
  IF source \notin g.nodes \/ target \notin g.nodes THEN {}
  ELSE Search(g, {<<source>>}, {source}, target)

\* the ids along a path read as one number, to order equally long paths
RECURSIVE PathKey(_, _)
PathKey(p, i) == IF i = 0 THEN 0 ELSE PathKey(p, i - 1) * 10 + p[i][2]

\* nx.shortest_path: one of the shortest paths, the same one every time it is
\* asked the same question; which one it prefers is the library's business (tie)
shortest_path(g, source, target) ==
  LET ps == ShortestPaths(g, source, target)
  IN CHOOSE p \in ps :
       \A q \in ps : IF tie = "low" THEN PathKey(p, Len(p)) <= PathKey(q, Len(q))
                                     ELSE PathKey(p, Len(p)) >= PathKey(q, Len(q))

HasPath(g, source, target) == ShortestPaths(g, source, target) # {}

\* ------------------------------------------------------------------ rules
\* generate_rule_string without the icmp branch
generate_rule_string_with_ports(protocol, sport_start, sport_end, dport_start, dport_end, src_ip, src_prefix, dst_ip, dst_prefix, ingress_interface, egress_interface, state) ==
  <<"-A", "FORWARD", "-p", protocol,
    "--sport", FormatInt(sport_start) \o ":" \o FormatInt(sport_end),
    "--dport", FormatInt(dport_start) \o ":" \o FormatInt(dport_end),
    "-s", src_ip \o "/" \o FormatInt(src_prefix),
    "-d", dst_ip \o "/" \o FormatInt(dst_prefix),
    "-i", ingress_interface, "-o", egress_interface,
    "-m", "state", "--state", state, "-j", "ACCEPT", "">>

generate_rule_string(protocol, sport_start, sport_end, dport_start, dport_end, src_ip, src_prefix, dst_ip, dst_prefix, ingress_interface, egress_interface, state) ==
  IF protocol = "icmp"
  THEN <<"-A", "FORWARD", "-p", protocol,
         "-s", src_ip \o "/" \o FormatInt(src_prefix),
         "-d", dst_ip \o "/" \o FormatInt(dst_prefix),
         "-i", ingress_interface, "-o", egress_interface,
         "-m", "state", "--state", state, "-j", "ACCEPT", "">>
  ELSE <<"-A", "FORWARD", "-p", protocol,
         "--sport", FormatInt(sport_start) \o ":" \o FormatInt(sport_end),
         "--dport", FormatInt(dport_start) \o ":" \o FormatInt(dport_end),
         "-s", src_ip \o "/" \o FormatInt(src_prefix),
         "-d", dst_ip \o "/" \o FormatInt(dst_prefix),
         "-i", ingress_interface, "-o", egress_interface,
         "-m", "state", "--state", state, "-j", "ACCEPT", "">>

\* ReverseState without the icmp case
ReverseStateNoIcmp(protocol) == "ESTABLISHED"

\* the state match of the reverse rule (lines 174-176)
ReverseState(protocol) == IF protocol = "icmp" THEN "NEW,ESTABLISHED" ELSE "ESTABLISHED"

\* RulesFor adding the reverse rule whatever the direction
RulesForBothWays(direction, rule, reverse_rule) == <<rule, reverse_rule>>

\* RulesFor appending the reverse rule before the forward rule
RulesForReverseFirst(direction, rule, reverse_rule) ==
  IF direction = "bidirectional" THEN <<reverse_rule, rule>> ELSE <<rule>>

\* the appends of lines 164 and 182: the forward rule, then the reverse rule of a
\* bidirectional communication
RulesFor(direction, rule, reverse_rule) ==
  IF direction = "bidirectional" THEN <<rule, reverse_rule>> ELSE <<rule>>

\* RouterRules reading the ingress interface from the link to the next hop and the
\* egress interface from the link to the last hop
RouterRulesInterfacesExchanged(g, communication, path, i) ==
  LET src_subnet == sId2sName(communication.sourceSubnetId)
      dst_subnet == sId2sName(communication.targetSubnetId)
      router_name == path[i]
      last_hop == path[i - 1]
      next_hop == path[i + 1]
      protocol == communication.protocol
      sport_start == communication.sourcePortStart
      sport_end == communication.sourcePortEnd
      dport_start == communication.targetPortStart
      dport_end == communication.targetPortEnd
      src_ip == g.attrs[src_subnet].address
      src_prefix == g.attrs[src_subnet].prefix
      dst_ip == g.attrs[dst_subnet].address
      dst_prefix == g.attrs[dst_subnet].prefix
      ingress_interface == g.binding[<<router_name, next_hop>>].interfaceId
      egress_interface == g.binding[<<router_name, last_hop>>].interfaceId
      rule == generate_rule_string(protocol, sport_start, sport_end, dport_start, dport_end,
                                   src_ip, src_prefix, dst_ip, dst_prefix,
                                   ingress_interface, egress_interface, "NEW,ESTABLISHED")
      reverse_rule == generate_rule_string(protocol, dport_start, dport_end, sport_start, sport_end,
                                           dst_ip, dst_prefix, src_ip, src_prefix,
                                           egress_interface, ingress_interface,
                                           ReverseState(protocol))
  IN RulesFor(communication.direction, rule, reverse_rule)

\* the body of generate_filter_rule's loop for the router at path[i]: the
\* router's list of rules for this communication
RouterRules(g, communication, path, i) ==
  LET src_subnet == sId2sName(communication.sourceSubnetId)
      dst_subnet == sId2sName(communication.targetSubnetId)
      router_name == path[i]
      last_hop == path[i - 1]
      next_hop == path[i + 1]
      protocol == communication.protocol
      sport_start == communication.sourcePortStart
      sport_end == communication.sourcePortEnd
      dport_start == communication.targetPortStart
      dport_end == communication.targetPortEnd
      src_ip == g.attrs[src_subnet].address
      src_prefix == g.attrs[src_subnet].prefix
      dst_ip == g.attrs[dst_subnet].address
      dst_prefix == g.attrs[dst_subnet].prefix
      ingress_interface == g.binding[<<router_name, last_hop>>].interfaceId
      egress_interface == g.binding[<<router_name, next_hop>>].interfaceId
      rule == generate_rule_string(protocol, sport_start, sport_end, dport_start, dport_end,
                                   src_ip, src_prefix, dst_ip, dst_prefix,
                                   ingress_interface, egress_interface, "NEW,ESTABLISHED")
      reverse_rule == generate_rule_string(protocol, dport_start, dport_end, sport_start, sport_end,
                                           dst_ip, dst_prefix, src_ip, src_prefix,
                                           egress_interface, ingress_interface,
                                           ReverseState(protocol))
  IN RulesFor(communication.direction, rule, reverse_rule)

\* the routers of a path, in path order
PathRouters(path) == SelectSeq(path, IsRouterName)

\* generate_filter_rule's result: router name -> rules, for the routers of the path
generate_filter_rule(g, communication) ==
  LET path == shortest_path(g, sId2sName(communication.sourceSubnetId),
                            sId2sName(communication.targetSubnetId))
  IN [router_name \in {path[i] : i \in {j \in 1..Len(path) : IsRouterName(path[j])}} |->
        RouterRules(g, communication, path,
                    CHOOSE i \in 1..Len(path) : path[i] = router_name)]

\* ------------------------------------------------------------------ rule set
init_rules(network_desc) ==
  [router_name \in {rId2rName(network_desc.routers[i].id) : i \in 1..Len(network_desc.routers)} |->
     [nat |-> << <<":OUTPUT", "ACCEPT", "[0:0]">>,
                 <<":PREROUTING", "ACCEPT", "[0:0]">>,
                 <<":POSTROUTING", "ACCEPT", "[0:0]">> >>,
      filter |-> << <<":INPUT", "DROP", "[0:0]">>,
                    <<":OUTPUT", "DROP", "[0:0]">>,
                    <<":FORWARD", "DROP", "[0:0]">> >>]]

\* AppendRules putting the new rules in front of the list
RECURSIVE AppendRulesInFront(_, _, _, _)
AppendRulesInFront(rules, result, order, i) ==
  IF i > Len(order) THEN rules
  ELSE AppendRulesInFront([rules EXCEPT ![order[i]].filter = result[order[i]] \o @],
                          result, order, i + 1)

\* AppendRules assigning the new rules to the list instead of extending it
RECURSIVE AppendRulesOverwriting(_, _, _, _)
AppendRulesOverwriting(rules, result, order, i) ==
  IF i > Len(order) THEN rules
  ELSE AppendRulesOverwriting([rules EXCEPT ![order[i]].filter = result[order[i]]],
                              result, order, i + 1)

\* the loop of create_filter_rules over communication_filter_rules.items(), which
\* are in path order: each router's rules go to the end of its '* filter' list
RECURSIVE AppendRules(_, _, _, _)
AppendRules(rules, result, order, i) ==
  IF i > Len(order) THEN rules
  ELSE AppendRules([rules EXCEPT ![order[i]].filter = @ \o result[order[i]]], result, order, i + 1)

\* ------------------------------------------------------------------ artifacts
TableOrder == <<"nat", "filter">>

TableName(t) == IF t = "nat" THEN <<"*", "nat">> ELSE <<"*", "filter">>

\* what write_filter_rules writes for one table: the name, the rules, '\nCOMMIT\n\n'
TableLines(table_dict, t) ==
  <<TableName(t)>> \o table_dict[t] \o << <<>>, <<"COMMIT">>, <<>> >>

\* the lines of the first n tables of a router
RECURSIVE Serialize(_, _)
Serialize(table_dict, n) ==
  IF n = 0 THEN <<>>
  ELSE Serialize(table_dict, n - 1) \o TableLines(table_dict, TableOrder[n])

NoFile == [exists |-> FALSE, lines |-> <<>>]

StaleFile == [exists |-> TRUE, lines |-> << <<"stale">> >>]

Paths == (1..NumTestcases) \X (1..NumRouters)

\* the keys of filter_rules in insertion order (init_rules follows the routers list)
RouterOrder(network_desc) ==
  [i \in 1..Len(network_desc.routers) |-> rId2rName(network_desc.routers[i].id)]

\* re.match(r"r(\d+)", router_name).group(1)
RouterIdOf(router_name) == router_name[2]

\* ------------------------------------------------------------------ main
network == inputs[testcase_id].network

communications == inputs[testcase_id].communications

communication == communications[idx]

src_subnet == sId2sName(communication.sourceSubnetId)

dst_subnet == sId2sName(communication.targetSubnetId)

\* some communication of the input has more than one shortest path
Ambiguous(input) ==
  LET g == generate_network_graph(input.network)
  IN \E i \in 1..Len(input.communications) :
       Cardinality(ShortestPaths(g, sId2sName(input.communications[i].sourceSubnetId),
                                 sId2sName(input.communications[i].targetSubnetId))) > 1

\* the preference among equally short paths is only a choice where there are any
TiePolicies(input) == IF Ambiguous(input) THEN {"low", "high"} ELSE {"low"}

\* what does not depend on the input directory: nothing is constructed yet; the
\* output directory holds an artifact of an earlier run for router 1
InitRest ==
  /\ testcase_id = 0
  /\ graph = EmptyGraph
  /\ filter_rules = <<>>
  /\ idx = 0
  /\ resolved_path = <<>>
  /\ communication_filter_rules = <<>>
  /\ widx = 0
  /\ files = [p \in Paths |-> IF p[2] = 1 THEN StaleFile ELSE NoFile]
  /\ pc = "main"
  /\ err = "none"

\* the input directory holds one testcase file
Init ==
  /\ inputs \in [{1} -> Inputs]
  /\ tie \in TiePolicies(inputs[1])
  /\ todo = <<1>>
  /\ InitRest

\* the input directory holds NumTestcases files with the same content
InitRerun ==
  /\ \E input \in {x \in Inputs : Len(x.network.links) >= MinRerunLinks} :
       inputs = [i \in 1..NumTestcases |-> input]
  /\ tie \in TiePolicies(inputs[1])
  /\ todo = [i \in 1..NumTestcases |-> i]
  /\ InitRest

\* Construct with filter_rules shared by all generators: only the first fills it
ConstructKeepingRules ==
  /\ pc = "main"
  /\ todo # <<>>
  /\ testcase_id' = Head(todo)
  /\ todo' = Tail(todo)
  /\ graph' = generate_network_graph(inputs[Head(todo)].network)
  /\ filter_rules' = IF filter_rules = <<>> THEN init_rules(inputs[Head(todo)].network)
                                            ELSE filter_rules
  /\ idx' = 1
  /\ resolved_path' = <<>>
  /\ communication_filter_rules' = <<>>
  /\ pc' = "create"
  /\ UNCHANGED <<inputs, tie, widx, files, err>>

\* main.py 48-67: the next testcase file is loaded and the generator constructed
\* (__init__: generate_network_graph, filter_rules = {}, init_rules)
Construct ==
  /\ pc = "main"
  /\ todo # <<>>
  /\ testcase_id' = Head(todo)
  /\ todo' = Tail(todo)
  /\ graph' = generate_network_graph(inputs[Head(todo)].network)
  /\ filter_rules' = init_rules(inputs[Head(todo)].network)
  /\ idx' = 1
  /\ resolved_path' = <<>>
  /\ communication_filter_rules' = <<>>
  /\ pc' = "create"
  /\ UNCHANGED <<inputs, tie, widx, files, err>>

\* one iteration of create_filter_rules' loop (105-111) that completes
ProcessCommunication ==
  /\ pc = "create"
  /\ idx <= Len(communications)
  /\ HasPath(graph, src_subnet, dst_subnet)
  /\ LET result == generate_filter_rule(graph, communication)
         order == PathRouters(shortest_path(graph, src_subnet, dst_subnet))
     IN /\ \A i \in 1..Len(order) : order[i] \in DOMAIN filter_rules
        /\ resolved_path' = shortest_path(graph, src_subnet, dst_subnet)
        /\ communication_filter_rules' = result
        /\ filter_rules' = AppendRules(filter_rules, result, order, 1)
  /\ idx' = idx + 1
  /\ UNCHANGED <<inputs, tie, todo, testcase_id, graph, widx, files, pc, err>>

\* RaiseNoPath catching the exception and going on with the next communication
SkipNoPath ==
  /\ pc = "create"
  /\ idx <= Len(communications)
  /\ ~HasPath(graph, src_subnet, dst_subnet)
  /\ idx' = idx + 1
  /\ UNCHANGED <<inputs, tie, todo, testcase_id, graph, filter_rules, resolved_path,
                 communication_filter_rules, widx, files, pc, err>>

\* line 128: nx.shortest_path raises (NetworkXNoPath); nothing catches it
RaiseNoPath ==
  /\ pc = "create"
  /\ idx <= Len(communications)
  /\ ~HasPath(graph, src_subnet, dst_subnet)
  /\ pc' = "error"
  /\ err' = "NetworkXNoPath"
  /\ UNCHANGED <<inputs, tie, todo, testcase_id, graph, filter_rules, idx, resolved_path,
                 communication_filter_rules, widx, files>>

\* line 111: a router of the path has no entry in filter_rules (it is not in the
\* routers list): KeyError, after the routers before it on the path got their rules
RaiseKeyError ==
  /\ pc = "create"
  /\ idx <= Len(communications)
  /\ HasPath(graph, src_subnet, dst_subnet)
  /\ LET result == generate_filter_rule(graph, communication)
         order == PathRouters(shortest_path(graph, src_subnet, dst_subnet))
     IN /\ \E i \in 1..Len(order) : order[i] \notin DOMAIN filter_rules
        /\ LET first == CHOOSE i \in 1..Len(order) :
                          /\ order[i] \notin DOMAIN filter_rules
                          /\ \A j \in 1..(i - 1) : order[j] \in DOMAIN filter_rules
           IN filter_rules' = AppendRules(filter_rules, result, SubSeq(order, 1, first - 1), 1)
        /\ resolved_path' = shortest_path(graph, src_subnet, dst_subnet)
        /\ communication_filter_rules' = result
  /\ pc' = "error"
  /\ err' = "KeyError"
  /\ UNCHANGED <<inputs, tie, todo, testcase_id, graph, idx, widx, files>>

\* create_filter_rules returns; main.py 71 calls write_filter_rules
StartWrite ==
  /\ pc = "create"
  /\ idx > Len(communications)
  /\ pc' = "write"
  /\ widx' = 1
  /\ UNCHANGED <<inputs, tie, todo, testcase_id, graph, filter_rules, idx, resolved_path,
                 communication_filter_rules, files, err>>

\* WriteRouter without the removal of line 304 and with the file opened for
\* appending: the tables go after what the file held
WriteRouterAppending ==
  /\ pc = "write"
  /\ widx <= Len(RouterOrder(network))
  /\ LET router_name == RouterOrder(network)[widx]
         output_file_name == <<testcase_id, RouterIdOf(router_name)>>
     IN files' = [files EXCEPT ![output_file_name] =
                    [exists |-> TRUE,
                     lines |-> files[output_file_name].lines \o
                               Serialize(filter_rules[router_name], Len(TableOrder))]]
  /\ widx' = widx + 1
  /\ UNCHANGED <<inputs, tie, todo, testcase_id, graph, filter_rules, idx, resolved_path,
                 communication_filter_rules, pc, err>>

\* one iteration of write_filter_rules' loop (294-318) that completes: the old
\* file, if any, is removed, a new one created and every table written
WriteRouter ==
  /\ pc = "write"
  /\ widx <= Len(RouterOrder(network))
  /\ LET router_name == RouterOrder(network)[widx]
         output_file_name == <<testcase_id, RouterIdOf(router_name)>>
     IN files' = [files EXCEPT ![output_file_name] =
                    [exists |-> TRUE,
                     lines |-> Serialize(filter_rules[router_name], Len(TableOrder))]]
  /\ widx' = widx + 1
  /\ UNCHANGED <<inputs, tie, todo, testcase_id, graph, filter_rules, idx, resolved_path,
                 communication_filter_rules, pc, err>>

\* the same iteration when the file system refuses: os.remove raises (the old file
\* stays), open raises (no file), or a write raises after n whole tables
WriteRouterFails ==
  /\ pc = "write"
  /\ widx <= Len(RouterOrder(network))
  /\ LET router_name == RouterOrder(network)[widx]
         output_file_name == <<testcase_id, RouterIdOf(router_name)>>
     IN \/ /\ files[output_file_name].exists
           /\ files' = files
        \/ files' = [files EXCEPT ![output_file_name] = NoFile]
        \/ \E n \in 0..(Len(TableOrder) - 1) :
             files' = [files EXCEPT ![output_file_name] =
                         [exists |-> TRUE, lines |-> Serialize(filter_rules[router_name], n)]]
  /\ pc' = "error"
  /\ err' = "OSError"
  /\ UNCHANGED <<inputs, tie, todo, testcase_id, graph, filter_rules, idx, resolved_path,
                 communication_filter_rules, widx>>

\* write_filter_rules returns; main's loop goes on to the next file
FinishWrite ==
  /\ pc = "write"
  /\ widx > Len(RouterOrder(network))
  /\ pc' = "main"
  /\ UNCHANGED <<inputs, tie, todo, testcase_id, graph, filter_rules, idx, resolved_path,
                 communication_filter_rules, widx, files, err>>

\* main's loop is over
Exit ==
  /\ pc = "main"
  /\ todo = <<>>
  /\ pc' = "done"
  /\ UNCHANGED <<inputs, tie, todo, testcase_id, graph, filter_rules, idx, resolved_path,
                 communication_filter_rules, widx, files, err>>

Next ==
  \/ Construct
  \/ ProcessCommunication
  \/ RaiseNoPath
  \/ RaiseKeyError
  \/ StartWrite
  \/ WriteRouter
  \/ WriteRouterFails
  \/ FinishWrite
  \/ Exit

Spec == Init /\ [][Next]_vars

SpecRerun == InitRerun /\ [][Next]_vars

\* ------------------------------------------------------------------ reading rules
HasToken(line, token) == \E i \in 1..Len(line) : line[i] = token

\* the token that follows a flag in a rule
TokenAfter(line, flag) == line[(CHOOSE i \in 1..Len(line) : line[i] = flag) + 1]

IsForwardRule(line) == Len(line) >= 2 /\ line[1] = "-A" /\ line[2] = "FORWARD"

\* address/prefix of a subnet as the testcase file gives it
NetOf(subnet_id) ==
  LET subnet == CHOOSE x \in {network.subnets[i] : i \in 1..Len(network.subnets)} :
                  x.id = subnet_id
  IN subnet.address \o "/" \o FormatInt(subnet.prefix)

\* generate_filter_rule has returned for some communication of the current testcase
Generated == testcase_id # 0 /\ (idx > 1 \/ err = "KeyError")

\* ... and that communication
LastCommunication == communications[IF err = "KeyError" THEN idx ELSE idx - 1]

\* the rules of the last result that allow traffic from / to the source subnet
IsForwardOf(c, line) == TokenAfter(line, "-s") = NetOf(c.sourceSubnetId)

IsReverseOf(c, line) == TokenAfter(line, "-s") = NetOf(c.targetSubnetId)

\* the routers of the last path
RoutersOnPath ==
  {resolved_path[i] : i \in {j \in 1..Len(resolved_path) : resolved_path[j][1] = "r"}}

\* all rules of the last result
LastRules ==
  UNION {{communication_filter_rules[r][k] : k \in 1..Len(communication_filter_rules[r])} :
           r \in DOMAIN communication_filter_rules}

\* ------------------------------------------------------------------ C1
\* C1: once a generator is constructed, every router's filter table begins with
\* the three default-deny policy lines INPUT, OUTPUT, FORWARD DROP in that order,
\* everything after them is a synthesized FORWARD rule (so every such rule comes
\* after them), and every router's nat table is exactly the three ACCEPT policies.
C1_DefaultDenyHeader ==
  testcase_id # 0 =>
    \A r \in DOMAIN filter_rules :
      /\ Len(filter_rules[r].filter) >= 3
      /\ filter_rules[r].filter[1] = <<":INPUT", "DROP", "[0:0]">>
      /\ filter_rules[r].filter[2] = <<":OUTPUT", "DROP", "[0:0]">>
      /\ filter_rules[r].filter[3] = <<":FORWARD", "DROP", "[0:0]">>
      /\ \A i \in 4..Len(filter_rules[r].filter) : IsForwardRule(filter_rules[r].filter[i])
      /\ filter_rules[r].nat = << <<":OUTPUT", "ACCEPT", "[0:0]">>,
                                  <<":PREROUTING", "ACCEPT", "[0:0]">>,
                                  <<":POSTROUTING", "ACCEPT", "[0:0]">> >>

\* both communications are processed, a router holds two or more synthesized rules, and
\* the run got to writing
C1_Witness ==
  /\ pc = "write"
  /\ idx = 3
  /\ \E r \in DOMAIN filter_rules : Len(filter_rules[r].filter) >= 5

\* ------------------------------------------------------------------ C2
\* C2: in the rules generated for a communication, every forward rule matches
\* state NEW,ESTABLISHED whatever the protocol; if the communication is
\* bidirectional every router of the path has a forward and a reverse rule, and
\* the reverse rule matches ESTABLISHED for tcp and udp, NEW,ESTABLISHED for icmp.
C2_ReverseState ==
  Generated =>
    LET c == LastCommunication
    IN /\ \A line \in LastRules :
            IsForwardOf(c, line) => TokenAfter(line, "--state") = "NEW,ESTABLISHED"
       /\ c.direction = "bidirectional" =>
            /\ \A r \in RoutersOnPath :
                  /\ r \in DOMAIN communication_filter_rules
                  /\ \E k \in 1..Len(communication_filter_rules[r]) :
                        IsForwardOf(c, communication_filter_rules[r][k])
                  /\ \E k \in 1..Len(communication_filter_rules[r]) :
                        IsReverseOf(c, communication_filter_rules[r][k])
            /\ \A line \in LastRules :
                  IsReverseOf(c, line) =>
                    TokenAfter(line, "--state") =
                      (IF c.protocol \in {"tcp", "udp"} THEN "ESTABLISHED" ELSE "NEW,ESTABLISHED")

\* a bidirectional icmp communication that crossed two routers
C2_Witness ==
  /\ Generated
  /\ LastCommunication.direction = "bidirectional"
  /\ LastCommunication.protocol = "icmp"
  /\ Cardinality(RoutersOnPath) = 2
  /\ \E line \in LastRules : IsReverseOf(LastCommunication, line)

\* ------------------------------------------------------------------ C3
\* C3: the rules generated for a unidirectional communication are exactly one
\* forward rule for each router of the resolved path: as many rules as routers
\* (a path of L nodes has (L - 1) / 2 routers), no reverse rule, and no rule for a
\* router that is not on the path.
C3_Unidirectional ==
  (Generated /\ LastCommunication.direction = "unidirectional") =>
    /\ DOMAIN communication_filter_rules = RoutersOnPath
    /\ Len(resolved_path) = 2 * Cardinality(DOMAIN communication_filter_rules) + 1
    /\ \A r \in DOMAIN communication_filter_rules :
          /\ Len(communication_filter_rules[r]) = 1
          /\ IsForwardRule(communication_filter_rules[r][1])
          /\ IsForwardOf(LastCommunication, communication_filter_rules[r][1])
    /\ \A line \in LastRules : ~IsReverseOf(LastCommunication, line)

\* a unidirectional communication that crossed two routers
C3_Witness ==
  /\ Generated
  /\ LastCommunication.direction = "unidirectional"
  /\ Len(resolved_path) = 5
  /\ Cardinality(DOMAIN communication_filter_rules) = 2

\* ------------------------------------------------------------------ C4
\* C4: the rules generated for a bidirectional communication are, for each router
\* of the resolved path, exactly two: the forward rule, then the reverse rule; and
\* once create_filter_rules has appended them they are, in that order, the last
\* two entries of that router's filter table.
C4_Bidirectional ==
  (Generated /\ LastCommunication.direction = "bidirectional") =>
    /\ DOMAIN communication_filter_rules = RoutersOnPath
    /\ \A r \in RoutersOnPath :
          /\ Len(communication_filter_rules[r]) = 2
          /\ IsForwardOf(LastCommunication, communication_filter_rules[r][1])
          /\ IsReverseOf(LastCommunication, communication_filter_rules[r][2])
          /\ TokenAfter(communication_filter_rules[r][1], "-d") =
               TokenAfter(communication_filter_rules[r][2], "-s")
          /\ err # "KeyError" =>
               LET table == filter_rules[r].filter
               IN /\ Len(table) >= 5
                  /\ table[Len(table) - 1] = communication_filter_rules[r][1]
                  /\ table[Len(table)] = communication_filter_rules[r][2]

\* a bidirectional communication that crossed two routers, appended to their tables
C4_Witness ==
  /\ Generated
  /\ err = "none"
  /\ LastCommunication.direction = "bidirectional"
  /\ Cardinality(RoutersOnPath) = 2
  /\ \A r \in RoutersOnPath : Len(filter_rules[r].filter) >= 5

\* ------------------------------------------------------------------ C5
\* a link of the testcase file names a router or a subnet the file does not declare
HasDanglingLink(network_desc) ==
  \E i \in 1..Len(network_desc.links) :
    \/ \A j \in 1..Len(network_desc.routers) :
         network_desc.routers[j].id # network_desc.links[i].routerId
    \/ \A j \in 1..Len(network_desc.subnets) :
         network_desc.subnets[j].id # network_desc.links[i].subnetId

\* C5: when a link names an undeclared router or subnet, constructing the
\* generator fails: the program has stopped with an error and holds no graph.
C5_DanglingLinkRejected ==
  (testcase_id # 0 /\ HasDanglingLink(network)) => (pc = "error" /\ graph = EmptyGraph)

\* ------------------------------------------------------------------ C6
\* the nodes linked, by the links of the testcase file, to a node of S
RECURSIVE LinkedTo(_, _)
LinkedTo(network_desc, S) ==
  LET T == S \cup {<<"r", network_desc.links[i].routerId>> :
                     i \in {j \in 1..Len(network_desc.links) :
                              <<"s", network_desc.links[j].subnetId>> \in S}}
             \cup {<<"s", network_desc.links[i].subnetId>> :
                     i \in {j \in 1..Len(network_desc.links) :
                              <<"r", network_desc.links[j].routerId>> \in S}}
  IN IF T = S THEN S ELSE LinkedTo(network_desc, T)

\* communications of the current testcase between two different subnets with no
\* chain of links between them
UnreachableComms ==
  {i \in 1..Len(communications) :
     /\ communications[i].sourceSubnetId # communications[i].targetSubnetId
     /\ <<"s", communications[i].targetSubnetId>> \notin
          LinkedTo(network, {<<"s", communications[i].sourceSubnetId>>})}

\* C6: when some communication of the testcase joins two different subnets with
\* no path between them, the run never gets past the first such communication
\* (it is not skipped), it never reaches write_filter_rules or the end of main, if
\* it has stopped it has stopped with an exception, and no artifact of the
\* testcase is written: the files are what they were before the run.
C6_UnreachableAborts ==
  (testcase_id # 0 /\ UnreachableComms # {}) =>
    /\ pc \in {"create", "error"}
    /\ \A i \in UnreachableComms : idx <= i
    /\ pc = "error" => err \in {"NetworkXNoPath", "KeyError"}
    /\ widx = 0
    /\ \A p \in Paths : files[p] = (IF p[2] = 1 THEN StaleFile ELSE NoFile)

\* the second communication has no path, the first left rules in a table, and the
\* program stopped with NetworkXNoPath
C6_Witness ==
  /\ pc = "error"
  /\ err = "NetworkXNoPath"
  /\ idx = 2
  /\ idx \in UnreachableComms
  /\ \E r \in DOMAIN filter_rules : Len(filter_rules[r].filter) > 3

\* ------------------------------------------------------------------ C7
\* C7: when writing one router's artifact fails, the artifacts of all the other
\* routers of the rule set are (or stay) written and complete: the ones before it
\* are untouched and the ones after it are still written.
C7_WriteFailureIsLocal ==
  err = "OSError" =>
    \A i \in 1..Len(RouterOrder(network)) :
      i # widx =>
        files[<<testcase_id, RouterIdOf(RouterOrder(network)[i])>>] =
          [exists |-> TRUE,
           lines |-> Serialize(filter_rules[RouterOrder(network)[i]], Len(TableOrder))]

\* ------------------------------------------------------------------ C8
\* C8: processing a communication whose source and target are the same declared
\* subnet resolves the one-node path <<that subnet>>, generates no rule for any
\* router, leaves every table as it was, raises nothing and goes on.
C8_SelfCommunication ==
  [][(/\ pc = "create"
      /\ idx <= Len(communications)
      /\ communication.sourceSubnetId = communication.targetSubnetId)
     => (/\ pc' = "create"
         /\ err' = "none"
         /\ idx' = idx + 1
         /\ resolved_path' = << <<"s", communication.sourceSubnetId>> >>
         /\ DOMAIN communication_filter_rules' = {}
         /\ filter_rules' = filter_rules)]_vars

\* a self communication was processed after one that left rules
C8_Witness ==
  /\ Generated
  /\ err = "none"
  /\ idx = 3
  /\ LastCommunication.sourceSubnetId = LastCommunication.targetSubnetId
  /\ Len(resolved_path) = 1
  /\ \E r \in DOMAIN filter_rules : Len(filter_rules[r].filter) > 3

\* ------------------------------------------------------------------ C9
\* C9: a rule generated for an icmp communication has no --sport and no --dport
\* token; a rule generated for tcp or udp has both, and in the forward rule
\* --sport is sourcePortStart:sourcePortEnd and --dport targetPortStart:targetPortEnd.
C9_PortClauses ==
  Generated =>
    LET c == LastCommunication
    IN \A line \in LastRules :
         /\ c.protocol = "icmp" => (~HasToken(line, "--sport") /\ ~HasToken(line, "--dport"))
         /\ c.protocol \in {"tcp", "udp"} =>
              /\ HasToken(line, "--sport")
              /\ HasToken(line, "--dport")
              /\ IsForwardOf(c, line) =>
                   /\ TokenAfter(line, "--sport") =
                        FormatInt(c.sourcePortStart) \o ":" \o FormatInt(c.sourcePortEnd)
                   /\ TokenAfter(line, "--dport") =
                        FormatInt(c.targetPortStart) \o ":" \o FormatInt(c.targetPortEnd)

\* rules were generated for a bidirectional icmp communication
C9_Witness ==
  /\ Generated
  /\ LastCommunication.protocol = "icmp"
  /\ LastCommunication.direction = "bidirectional"
  /\ Cardinality(LastRules) >= 2
  /\ \A line \in LastRules : TokenAfter(line, "-p") = "icmp"

\* ------------------------------------------------------------------ C10
\* C10: when main has gone through testcase files of the same content, the
\* artifacts written for them are the same: every router of the network has, under
\* each testcase, a file with the same lines in the same order.
C10_RerunIdentical ==
  pc = "done" =>
    \A t1, t2 \in DOMAIN inputs :
      inputs[t1] = inputs[t2] =>
        \A i \in 1..Len(inputs[t1].network.routers) :
          LET router_id == inputs[t1].network.routers[i].id
          IN /\ files[<<t1, router_id>>].exists
             /\ files[<<t1, router_id>>] = files[<<t2, router_id>>]

\* two runs completed and wrote an artifact that holds synthesized rules
C10_Witness ==
  /\ pc = "done"
  /\ testcase_id = 2
  /\ inputs[1] = inputs[2]
  /\ \E r \in DOMAIN filter_rules :
       /\ Len(filter_rules[r].filter) > 3
       /\ files[<<1, RouterIdOf(r)>>].lines = Serialize(filter_rules[r], Len(TableOrder))

\* ------------------------------------------------------------------ C11
\* s is the beginning of t
IsPrefix(s, t) == Len(s) <= Len(t) /\ SubSeq(t, 1, Len(s)) = s

\* C11: a step of create_filter_rules' loop keeps the routers of the rule set,
\* leaves every nat table alone and every entry of every filter table where it
\* was; a filter table that changes belongs to a router of the path just resolved
\* and has grown by exactly that communication's rules for the router, at its end;
\* when the step completes, every router of the path has grown so. So the rules of
\* an earlier communication precede those of a later one in every table.
C11_AppendOnly ==
  [][(pc = "create" /\ idx <= Len(communications)) =>
       /\ DOMAIN filter_rules' = DOMAIN filter_rules
       /\ \A r \in DOMAIN filter_rules :
            /\ filter_rules'[r].nat = filter_rules[r].nat
            /\ IsPrefix(filter_rules[r].filter, filter_rules'[r].filter)
            /\ filter_rules'[r].filter # filter_rules[r].filter =>
                 /\ r \in RoutersOnPath'
                 /\ filter_rules'[r].filter =
                      filter_rules[r].filter \o communication_filter_rules'[r]
            /\ (pc' = "create" /\ r \in RoutersOnPath') =>
                 /\ filter_rules'[r].filter # filter_rules[r].filter
                 /\ idx' = idx + 1]_vars

\* a router's table holds the rules of the first communication and, after them,
\* the different rules of the second
C11_Witness ==
  /\ pc = "create"
  /\ idx = 3
  /\ communications[1].protocol # communications[2].protocol
  /\ \E r \in DOMAIN filter_rules :
       LET table == filter_rules[r].filter
       IN /\ r \in DOMAIN communication_filter_rules
          /\ Len(table) > 3 + Len(communication_filter_rules[r])
          /\ TokenAfter(table[4], "-p") = communications[1].protocol
          /\ TokenAfter(table[Len(table)], "-p") = communications[2].protocol

\* ------------------------------------------------------------------ C12
\* the links of the testcase file between a router and a subnet, by node name
LinksBetween(router_name, subnet_name) ==
  {network.links[k] : k \in {n \in 1..Len(network.links) :
                               /\ rId2rName(network.links[n].routerId) = router_name
                               /\ sId2sName(network.links[n].subnetId) = subnet_name}}

\* the positions of the last path that hold a router
RouterPositions == {i \in 1..Len(resolved_path) : resolved_path[i][1] = "r"}

\* the same flag carries the same value in both rules, or is in neither
SameClause(line, other, flag, otherFlag) ==
  /\ HasToken(line, flag) <=> HasToken(other, otherFlag)
  /\ HasToken(line, flag) => TokenAfter(line, flag) = TokenAfter(other, otherFlag)

\* C12: for every router at position i of the resolved path, the elements at i-1
\* and i+1 are subnets the testcase file links to that router; the router's forward
\* rule enters by the interfaceId of its link to the subnet before it and leaves by
\* the interfaceId of its link to the subnet after it, from the address/prefix of
\* the communication's source subnet to that of its target subnet; the reverse rule
\* of a bidirectional communication has networks, port ranges and interfaces of
\* the forward rule exchanged.
C12_HopInterfaces ==
  Generated =>
    \A i \in RouterPositions :
      LET router_name == resolved_path[i]
          last_hop == resolved_path[i - 1]
          next_hop == resolved_path[i + 1]
          rules == communication_filter_rules[router_name]
          rule == rules[1]
      IN /\ 1 < i /\ i < Len(resolved_path)
         /\ last_hop[1] = "s" /\ next_hop[1] = "s"
         /\ LinksBetween(router_name, last_hop) # {}
         /\ LinksBetween(router_name, next_hop) # {}
         /\ \A l \in LinksBetween(router_name, last_hop) :
              TokenAfter(rule, "-i") = l.interfaceId
         /\ \A l \in LinksBetween(router_name, next_hop) :
              TokenAfter(rule, "-o") = l.interfaceId
         /\ TokenAfter(rule, "-s") = NetOf(LastCommunication.sourceSubnetId)
         /\ TokenAfter(rule, "-d") = NetOf(LastCommunication.targetSubnetId)
         /\ LastCommunication.direction = "bidirectional" =>
              /\ Len(rules) = 2
              /\ SameClause(rules[2], rule, "-s", "-d")
              /\ SameClause(rules[2], rule, "-d", "-s")
              /\ SameClause(rules[2], rule, "--sport", "--dport")
              /\ SameClause(rules[2], rule, "--dport", "--sport")
              /\ SameClause(rules[2], rule, "-i", "-o")
              /\ SameClause(rules[2], rule, "-o", "-i")

\* a bidirectional tcp communication whose path crosses two routers, so that the
\* subnet between them differs from both the source and the target subnet
C12_Witness ==
  /\ Generated
  /\ Len(resolved_path) = 5
  /\ LastCommunication.direction = "bidirectional"
  /\ LastCommunication.protocol = "tcp"
  /\ LET rules == communication_filter_rules[resolved_path[2]]
     IN /\ TokenAfter(rules[1], "-o") # TokenAfter(rules[1], "-i")
        /\ TokenAfter(rules[2], "--sport") # TokenAfter(rules[1], "--sport")
        /\ \E k \in 1..Len(network.subnets) : network.subnets[k].id = resolved_path[3][2]
        /\ TokenAfter(rules[1], "-d") # NetOf(resolved_path[3][2])

\* ------------------------------------------------------------------ C13
\* write_filter_rules has returned for the current testcase
WriteCompleted ==
  /\ testcase_id # 0
  /\ err = "none"
  /\ \/ pc = "write" /\ widx > Len(RouterOrder(network))
     \/ pc \in {"main", "done"}

\* the lines of a router's artifact: per table its name, its rules, a blank line,
\* COMMIT and a blank line, nat first
ExpectedArtifact(table_dict) ==
  << <<"*", "nat">> >> \o table_dict.nat \o << <<>>, <<"COMMIT">>, <<>> >> \o
  << <<"*", "filter">> >> \o table_dict.filter \o << <<>>, <<"COMMIT">>, <<>> >>

\* C13: after write_filter_rules has completed, the file of every router of the
\* rule set exists and holds exactly the serialization of the router's current
\* tables (table name, its rules in recorded order, blank line, COMMIT, blank line,
\* nat before filter), whether or not a file was at that path before; nothing of
\* the earlier content stays.
C13_FullReplace ==
  WriteCompleted =>
    \A router_name \in DOMAIN filter_rules :
      LET file == files[<<testcase_id, RouterIdOf(router_name)>>]
      IN /\ file.exists
         /\ file.lines = ExpectedArtifact(filter_rules[router_name])
         /\ \A k \in 1..Len(file.lines) :
              \A n \in 1..Len(StaleFile.lines) : file.lines[k] # StaleFile.lines[n]

\* the write has completed over a path that held a file before, and the new file
\* carries synthesized rules
C13_Witness ==
  /\ WriteCompleted
  /\ pc = "done"
  /\ \E router_name \in DOMAIN filter_rules :
       LET file == files[<<testcase_id, RouterIdOf(router_name)>>]
       IN /\ RouterIdOf(router_name) = 1
          /\ Len(filter_rules[router_name].filter) > 3
          /\ file # StaleFile
          /\ IsForwardRule(file.lines[Len(file.lines) - 3])

====
